---- MODULE Spec2Model ----
(***************************************************************************)
(* Trademark similarity engine (trademark_comparison.py): normalization,   *)
(* phonetic and fuzzy scoring, score fusion, matching against the stored   *)
(* corpus, classification and report assembly.                             *)
(*                                                                         *)
(* A string is a sequence of one-character strings.  A score is an integer *)
(* number of 1/Scale units, so that every quotient the code computes       *)
(* (edit distance over length, mean of four, the 0.3/0.7 weights) is exact.*)
(***************************************************************************)
EXTENDS Integers, Sequences, FiniteSets, TLC

(***************************************************************************)
(* Characters.                                                             *)
(***************************************************************************)
UpperCase ==
  <<"A","B","C","D","E","F","G","H","I","J","K","L","M",
    "N","O","P","Q","R","S","T","U","V","W","X","Y","Z">>

LowerCase ==
  <<"a","b","c","d","e","f","g","h","i","j","k","l","m",
    "n","o","p","q","r","s","t","u","v","w","x","y","z">>

DigitChars == <<"0","1","2","3","4","5","6","7","8","9">>

\* The characters of the model in code-point order (what sorted() compares).
CodePoints ==
  <<"\t", " ", "&", "-", ".">> \o DigitChars \o UpperCase \o <<"_">> \o LowerCase

Range(f) == {f[i] : i \in DOMAIN f}

\* Body applied to the value of v, which is computed once
With(v, Body(_)) == CHOOSE r \in {Body(w) : w \in {v}} : TRUE

Ord(c) == CHOOSE i \in DOMAIN CodePoints : CodePoints[i] = c

IsUpper(c) == c \in Range(UpperCase)
IsLower(c) == c \in Range(LowerCase)
IsDigit(c) == c \in Range(DigitChars)

\* \s of the re module
IsSpace(c) == c \in {" ", "\t"}

\* \w of the re module: letters, digits and the underscore
IsWord(c) == IsUpper(c) \/ IsLower(c) \/ IsDigit(c) \/ c = "_"

\* str.lower() on one character
lower_char(c) ==
  IF IsUpper(c) THEN LowerCase[CHOOSE i \in 1..26 : UpperCase[i] = c] ELSE c

\* str.upper() on one character
upper_char(c) ==
  IF IsLower(c) THEN UpperCase[CHOOSE i \in 1..26 : LowerCase[i] = c] ELSE c

lower(s) == [i \in 1..Len(s) |-> lower_char(s[i])]
upper(s) == [i \in 1..Len(s) |-> upper_char(s[i])]

(***************************************************************************)
(* str.split(), " ".join(), str.strip(), sorted()                          *)
(***************************************************************************)
RECURSIVE SplitFrom(_, _, _, _)
\* tokens of s from position i on; cur is the token being read, acc the
\* tokens already closed
SplitFrom(s, i, cur, acc) ==
  IF i > Len(s)
  THEN IF cur = <<>> THEN acc ELSE Append(acc, cur)
  ELSE IF IsSpace(s[i])
       THEN SplitFrom(s, i + 1, <<>>, IF cur = <<>> THEN acc ELSE Append(acc, cur))
       ELSE SplitFrom(s, i + 1, Append(cur, s[i]), acc)

split(s) == SplitFrom(s, 1, <<>>, <<>>)

RECURSIVE join(_)
\* " ".join(tokens)
join(tokens) ==
  IF tokens = <<>> THEN <<>>
  ELSE IF Len(tokens) = 1 THEN tokens[1]
  ELSE tokens[1] \o <<" ">> \o join(Tail(tokens))

RECURSIVE lstrip(_)
lstrip(s) == IF s # <<>> /\ IsSpace(s[1]) THEN lstrip(Tail(s)) ELSE s

RECURSIVE rstrip(_)
rstrip(s) ==
  IF s # <<>> /\ IsSpace(s[Len(s)]) THEN rstrip(SubSeq(s, 1, Len(s) - 1)) ELSE s

strip(s) == rstrip(lstrip(s))

RECURSIVE StrLess(_, _)
\* s < t for Python strings: lexicographic by code point
StrLess(s, t) ==
  IF t = <<>> THEN FALSE
  ELSE IF s = <<>> THEN TRUE
  ELSE IF s[1] = t[1] THEN StrLess(Tail(s), Tail(t))
  ELSE Ord(s[1]) < Ord(t[1])

RECURSIVE InsertToken(_, _)
\* insert token x into the sorted sequence ts, after the tokens equal to it
InsertToken(ts, x) ==
  IF ts = <<>> THEN <<x>>
  ELSE IF StrLess(x, ts[1]) THEN <<x>> \o ts
  ELSE <<ts[1]>> \o InsertToken(Tail(ts), x)

RECURSIVE sorted(_)
sorted(tokens) ==
  IF tokens = <<>> THEN <<>>
  ELSE InsertToken(sorted(SubSeq(tokens, 1, Len(tokens) - 1)), tokens[Len(tokens)])

(***************************************************************************)
(* TrademarkComparator.normalize_name                                      *)
(***************************************************************************)
\* re.sub(r'[^\w\s]', ' ', s)
sub_special(s) ==
  [i \in 1..Len(s) |-> IF IsWord(s[i]) \/ IsSpace(s[i]) THEN s[i] ELSE " "]

\* normalize_name with the whitespace collapsed before the special characters
\* are replaced (C11 fails of it)
normalize_collapse_first(name) ==
  IF name = <<>> THEN <<>> ELSE sub_special(join(split(lower(name))))

normalize_name(name) ==
  IF name = <<>> THEN <<>>
  ELSE join(split(sub_special(lower(name))))

(***************************************************************************)
(* jellyfish.soundex: first letter kept, then the digit classes of the     *)
(* following letters, a class equal to the previous one skipped, H and W   *)
(* transparent, any other uncoded character resetting the previous class,  *)
(* stopped at four characters and padded with "0".                         *)
(***************************************************************************)
NoCode == "None"

soundex_class(c) ==
  IF c \in {"B","F","P","V"} THEN "1"
  ELSE IF c \in {"C","G","J","K","Q","S","X","Z"} THEN "2"
  ELSE IF c \in {"D","T"} THEN "3"
  ELSE IF c = "L" THEN "4"
  ELSE IF c \in {"M","N"} THEN "5"
  ELSE IF c = "R" THEN "6"
  ELSE NoCode

RECURSIVE SoundexLoop(_, _, _, _)
\* s is upper-cased; i the next letter; last the previous class; result the code
SoundexLoop(s, i, last, result) ==
  IF i > Len(s) \/ Len(result) = 4
  THEN result \o [k \in 1..(4 - Len(result)) |-> "0"]
  ELSE LET sub == soundex_class(s[i]) IN
       IF sub # NoCode
       THEN SoundexLoop(s, i + 1, sub,
                        IF sub # last THEN Append(result, sub) ELSE result)
       ELSE SoundexLoop(s, i + 1,
                        IF s[i] # "H" /\ s[i] # "W" THEN NoCode ELSE last,
                        result)

soundex(s) ==
  IF s = <<>> THEN <<>>
  ELSE LET u == upper(s) IN SoundexLoop(u, 2, soundex_class(u[1]), <<u[1]>>)

(***************************************************************************)
(* jellyfish.metaphone                                                     *)
(***************************************************************************)
\* what the code reads past the end of the string
Sentinel == "*****"

Vowels == {"a","e","i","o","u"}

\* one iteration of the while loop at 1-based position i: <<result, i>> after it
MetaphoneStep(s, i, result) ==
  LET c    == s[i]
      nxt  == IF i < Len(s) THEN s[i + 1] ELSE Sentinel
      nn   == IF i < Len(s) - 1 THEN s[i + 2] ELSE Sentinel
      frst == i = 1
      prev == IF i > 1 THEN s[i - 1] ELSE Sentinel
      add(r, k) == <<result \o r, i + k + 1>>
  IN
  IF c = nxt /\ c # "c" THEN <<result, i + 1>>
  ELSE IF c \in Vowels
       THEN IF frst \/ prev = " " THEN add(<<c>>, 0) ELSE add(<<>>, 0)
  ELSE IF c = "b" THEN add(<<"b">>, 0)
  ELSE IF c = "c"
       THEN IF (nxt = "i" /\ nn = "a") \/ nxt = "h" THEN add(<<"x">>, 1)
            ELSE IF nxt \in {"i","e","y"} THEN add(<<"s">>, 1)
            ELSE add(<<"k">>, 0)
  ELSE IF c = "d"
       THEN IF nxt = "g" /\ nn \in {"i","e","y"} THEN add(<<"j">>, 2)
            ELSE add(<<"t">>, 0)
  ELSE IF c \in {"f","j","l","m","n","r"} THEN add(<<c>>, 0)
  ELSE IF c = "g"
       THEN IF nxt \in {"i","e","y"} THEN add(<<"j">>, 0)
            ELSE IF nxt = "h" /\ nn \notin Vowels THEN add(<<>>, 1)
            ELSE add(<<"k">>, 0)
  ELSE IF c = "h"
       THEN IF frst \/ nxt \in Vowels \/ prev \notin Vowels
            THEN add(<<"h">>, 0) ELSE add(<<>>, 0)
  ELSE IF c = "k"
       THEN IF frst \/ prev # "c" THEN add(<<"k">>, 0) ELSE add(<<>>, 0)
  ELSE IF c = "p"
       THEN IF nxt = "h" THEN add(<<"f">>, 1) ELSE add(<<"p">>, 0)
  ELSE IF c = "q" THEN add(<<"k">>, 0)
  ELSE IF c = "s"
       THEN IF nxt = "h" THEN add(<<"x">>, 1)
            ELSE IF nxt = "i" /\ nn \in {"o","a"} THEN add(<<"x">>, 2)
            ELSE add(<<"s">>, 0)
  ELSE IF c = "t"
       THEN IF nxt = "i" /\ nn \in {"o","a"} THEN add(<<"x">>, 0)
            ELSE IF nxt = "h" THEN add(<<"0">>, 1)
            ELSE IF nxt # "c" \/ nn # "h" THEN add(<<"t">>, 0)
            ELSE add(<<>>, 0)
  ELSE IF c = "v" THEN add(<<"f">>, 0)
  ELSE IF c = "w"
       THEN IF frst /\ nxt = "h" THEN add(<<"w">>, 1)
            ELSE IF nxt \in Vowels THEN add(<<"w">>, 0)
            ELSE add(<<>>, 0)
  ELSE IF c = "x"
       THEN IF frst
            THEN IF nxt = "h" \/ (nxt = "i" /\ nn \in {"o","a"})
                 THEN add(<<"x">>, 0) ELSE add(<<"s">>, 0)
            ELSE add(<<"k","s">>, 0)
  ELSE IF c = "y"
       THEN IF nxt \in Vowels THEN add(<<"y">>, 0) ELSE add(<<>>, 0)
  ELSE IF c = "z" THEN add(<<"s">>, 0)
  ELSE IF c = " "
       THEN IF result # <<>> /\ result[Len(result)] # " "
            THEN add(<<" ">>, 0) ELSE add(<<>>, 0)
  ELSE add(<<>>, 0)

RECURSIVE MetaphoneLoop(_, _, _)
MetaphoneLoop(s, i, result) ==
  IF i > Len(s) THEN result
  ELSE LET st == MetaphoneStep(s, i, result) IN MetaphoneLoop(s, st[2], st[1])

\* s.startswith(("kn", "gn", "pn", "wr", "ae"))
SilentStart(s) ==
  /\ Len(s) >= 2
  /\ <<s[1], s[2]>> \in {<<"k","n">>, <<"g","n">>, <<"p","n">>, <<"w","r">>, <<"a","e">>}

metaphone(s) ==
  LET l == lower(s)
      t == IF SilentStart(l) THEN Tail(l) ELSE l
  IN upper(MetaphoneLoop(t, 1, <<>>))

(***************************************************************************)
(* Arithmetic helpers.                                                     *)
(***************************************************************************)
Max2(a, b) == IF a >= b THEN a ELSE b
Min2(a, b) == IF a <= b THEN a ELSE b

RECURSIVE Gcd(_, _)
Gcd(a, b) == IF b = 0 THEN a ELSE Gcd(b, a % b)

RECURSIVE LcmUpTo(_)
\* least common multiple of 1..n
LcmUpTo(n) ==
  IF n <= 1 THEN 1 ELSE LET l == LcmUpTo(n - 1) IN (l \div Gcd(l, n)) * n

\* round() of the non-negative rational num/den to an integer: ties go to the
\* even neighbour
RoundHalfEven(num, den) ==
  LET q == num \div den
      r == num % den
  IN IF 2 * r < den THEN q
     ELSE IF 2 * r > den THEN q + 1
     ELSE IF q % 2 = 0 THEN q ELSE q + 1

(***************************************************************************)
(* jellyfish.levenshtein_distance: unit-cost insert, delete, substitute.   *)
(* A row of the table is a sequence indexed 1..Len(b)+1.                   *)
(***************************************************************************)
RECURSIVE LevRow(_, _, _, _)
\* the row of character ch from the row prev above it; cur holds columns 0..j-1
LevRow(prev, ch, b, cur) ==
  LET j == Len(cur) IN
  IF j > Len(b) THEN cur
  ELSE LevRow(prev, ch, b,
              Append(cur, Min2(Min2(prev[j + 1] + 1, cur[j] + 1),
                               prev[j] + (IF ch = b[j] THEN 0 ELSE 1))))

RECURSIVE LevRows(_, _, _, _)
LevRows(a, b, i, prev) ==
  IF i > Len(a) THEN prev[Len(b) + 1]
  ELSE LevRows(a, b, i + 1, LevRow(prev, a[i], b, <<prev[1] + 1>>))

levenshtein_distance(a, b) ==
  LevRows(a, b, 1, [j \in 1..(Len(b) + 1) |-> j - 1])

(***************************************************************************)
(* difflib.SequenceMatcher (no junk; strings far below the autojunk size). *)
(* Positions are 0-based and ranges half-open, as in difflib.              *)
(***************************************************************************)
RECURSIVE RunLen(_, _, _, _, _, _)
\* length of the common run of a[i:ahi] and b[j:bhi] that starts at i, j
RunLen(a, b, i, j, ahi, bhi) ==
  IF i < ahi /\ j < bhi /\ a[i + 1] = b[j + 1]
  THEN 1 + RunLen(a, b, i + 1, j + 1, ahi, bhi)
  ELSE 0

\* the longest of the runs <<i, j, k>>, of those the one starting earliest in
\* a, and of those the one starting earliest in b
Longest(runs) ==
  CHOOSE m \in runs :
    \A q \in runs :
      \/ m[3] > q[3]
      \/ m[3] = q[3] /\ m[1] < q[1]
      \/ m[3] = q[3] /\ m[1] = q[1] /\ m[2] <= q[2]

\* find_longest_match: <<besti, bestj, bestsize>>, and <<alo, blo, 0>> when
\* nothing matches
find_longest_match(a, b, alo, ahi, blo, bhi) ==
  IF alo >= ahi \/ blo >= bhi THEN <<alo, blo, 0>>
  ELSE With({<<i, j, RunLen(a, b, i, j, ahi, bhi)>> :
               i \in alo..(ahi - 1), j \in blo..(bhi - 1)},
            Longest)

RECURSIVE MatchingBlocksIn(_, _, _, _, _, _)
\* the blocks get_matching_blocks collects in a[alo:ahi], b[blo:bhi]
MatchingBlocksIn(a, b, alo, ahi, blo, bhi) ==
  LET Split(m) ==
        IF m[3] = 0 THEN {}
        ELSE {m} \cup (IF alo < m[1] /\ blo < m[2]
                       THEN MatchingBlocksIn(a, b, alo, m[1], blo, m[2]) ELSE {})
                 \cup (IF m[1] + m[3] < ahi /\ m[2] + m[3] < bhi
                       THEN MatchingBlocksIn(a, b, m[1] + m[3], ahi, m[2] + m[3], bhi)
                       ELSE {})
  IN With(find_longest_match(a, b, alo, ahi, blo, bhi), Split)

\* get_matching_blocks, with the closing block of length 0
get_matching_blocks(a, b) ==
  MatchingBlocksIn(a, b, 0, Len(a), 0, Len(b)) \cup {<<Len(a), Len(b), 0>>}

RECURSIVE SumSizes(_)
SumSizes(blocks) ==
  IF blocks = {} THEN 0
  ELSE LET m == CHOOSE m \in blocks : TRUE IN m[3] + SumSizes(blocks \ {m})

\* SequenceMatcher.ratio() as the fraction <<numerator, denominator>>;
\* 1.0 when both strings are empty
sm_ratio(a, b) ==
  IF Len(a) + Len(b) = 0 THEN <<1, 1>>
  ELSE <<2 * SumSizes(get_matching_blocks(a, b)), Len(a) + Len(b)>>

(***************************************************************************)
(* fuzzywuzzy.fuzz: ratio, partial_ratio, token_sort_ratio (integers).     *)
(***************************************************************************)
\* utils.intr(100 * r)
intr100(r) == RoundHalfEven(100 * r[1], r[2])

fuzz_ratio(s1, s2) ==
  IF s1 = s2 THEN 100                       \* check_for_equivalence
  ELSE IF s1 = <<>> \/ s2 = <<>> THEN 0     \* check_empty_string
  ELSE intr100(sm_ratio(s1, s2))

\* longer[start:start+n]
Slice(s, start, n) == SubSeq(s, start + 1, Min2(start + n, Len(s)))

\* the ratio of the shorter string against each window of the longer one that
\* a matching block lines up with; 100 as soon as one is above .995,
\* otherwise the best of them
PartialScores(shorter, longer) ==
  {sm_ratio(shorter, Slice(longer, Max2(m[2] - m[1], 0), Len(shorter))) :
     m \in get_matching_blocks(shorter, longer)}

BestPartial(scores) ==
  IF \E r \in scores : 1000 * r[1] > 995 * r[2] THEN 100
  ELSE intr100(CHOOSE r \in scores : \A q \in scores : q[1] * r[2] <= r[1] * q[2])

fuzz_partial_ratio(s1, s2) ==
  IF s1 = s2 THEN 100
  ELSE IF s1 = <<>> \/ s2 = <<>> THEN 0
  ELSE With(IF Len(s1) <= Len(s2) THEN PartialScores(s1, s2)
            ELSE PartialScores(s2, s1),
            BestPartial)

\* StringProcessor.replace_non_letters_non_numbers_with_whitespace: (?ui)\W
replace_non_word(s) == [i \in 1..Len(s) |-> IF IsWord(s[i]) THEN s[i] ELSE " "]

\* utils.full_process(s, force_ascii=True); every character here is ASCII
full_process(s) == strip(lower(replace_non_word(s)))

\* fuzz._process_and_sort
process_and_sort(s) == strip(join(sorted(split(full_process(s)))))

fuzz_token_sort_ratio(s1, s2) ==
  fuzz_ratio(process_and_sort(s1), process_and_sort(s2))

(***************************************************************************)
(* Inputs of the model: raw names, records, corpora, thresholds.           *)
(***************************************************************************)
Empty    == <<>>
Blank    == <<" ">>
Dot      == <<".">>
Dash     == <<"-">>
Apple    == <<"A","p","p","l","e">>
AppleLow == <<"a","p","p","l","e">>
Aple     == <<"A","p","l","e">>
AppleInc == <<"A","p","p","l","e"," ","I","n","c",".">>
AppleCo  == <<"A","p","p","l","e"," ","C","o">>
Acme     == <<"A","c","m","e">>
Acne     == <<"A","c","n","e">>
AcmeCo   == <<"A","c","m","e"," ","C","o">>
CoAcme   == <<"c","o","\t","_","A","C","M","E">>
Eiploo   == <<"e","i","p","l","o","o">>
Eipeoioal == <<"e","i","p","e","o","i","o","a","l">>

\* the names score_pair is applied to
PairNames ==
  {Empty, Blank, Dot, Dash, Apple, AppleLow, Aple, AppleInc, AppleCo, Acme,
   Acne, AcmeCo, CoAcme}

\* stands for a key that a record does not have (no name is equal to it)
Absent == <<"absent">>

\* the record holding the <<key, value>> pairs whose value is not Absent
Record(pairs) ==
  [k \in {p[1] : p \in {q \in pairs : q[2] # Absent}} |->
     (CHOOSE p \in pairs : p[1] = k)[2]]

\* dict.get(key, "")
Get(record, key) == IF key \in DOMAIN record THEN record[key] ELSE <<>>

\* Python's "a or b" on strings
Or(a, b) == IF a # <<>> THEN a ELSE b

\* the stored corpus is ledger-shaped; one row also has the two keys of an
\* extracted record
StoredRecords ==
  {Record({<<"Client / Applicant", AppleInc>>, <<"Trademark", t>>}) :
     t \in {Absent, Empty, Blank, Dot, Apple}}
  \cup
  {Record({<<"Client / Applicant", a>>, <<"Trademark", t>>}) :
     a \in {Absent, Acme}, t \in {Absent, Apple}}
  \cup
  {Record({<<"Client / Applicant", Absent>>, <<"Trademark", Dot>>})}
  \cup
  {Record({<<"Client / Applicant", AppleInc>>, <<"Trademark", Aple>>,
           <<"name", Acme>>, <<"text_in_logo", Apple>>})}

\* a new record is extracted-shaped, ledger-shaped or both
NewRecords ==
  {Record({<<"name", n>>, <<"text_in_logo", l>>}) :
     n \in {Absent, Empty, Acme}, l \in {Absent, Apple}}
  \cup
  {Record({<<"Client / Applicant", a>>, <<"Trademark", t>>}) :
     a \in {Absent, Acme, Aple}, t \in {Blank, Dot, Apple, Aple}}
  \cup
  {Record({<<"name", Empty>>, <<"Client / Applicant", AppleInc>>,
           <<"text_in_logo", Empty>>, <<"Trademark", AppleLow>>}),
   Record({<<"name", Acme>>, <<"Client / Applicant", AppleInc>>,
           <<"text_in_logo", Acme>>, <<"Trademark", Apple>>})}

\* records whose best score lies within half a hundredth below a band of
\* the classifier (Eiploo against Eipeoioal), and records that match exactly
NearBandStored ==
  {Record({<<"Client / Applicant", AppleInc>>, <<"Trademark", Eipeoioal>>}),
   Record({<<"Client / Applicant", Acme>>, <<"Trademark", Apple>>}),
   Record({<<"Client / Applicant", Acme>>, <<"Trademark", Absent>>})}

NearBandNew ==
  {Record({<<"Client / Applicant", Absent>>, <<"Trademark", Eiploo>>}),
   Record({<<"Client / Applicant", Acme>>, <<"Trademark", Apple>>})}

\* longest stored corpus of the model
MaxCorpus == 2

RECURSIVE SeqsUpTo(_, _)
\* the sequences over S of length at most n
SeqsUpTo(S, n) ==
  IF n = 0 THEN {<<>>}
  ELSE LET shorter == SeqsUpTo(S, n - 1)
       IN shorter \cup {Append(s, e) : s \in {q \in shorter : Len(q) = n - 1}, e \in S}

Corpora == SeqsUpTo(StoredRecords, MaxCorpus)

\* the CSV file on disk: whether it exists, the exception that reading it
\* raises ("none" when it is read to its end) and the rows it holds
NoFile == [exists |-> FALSE, error |-> "none", rows |-> <<>>]

\* a file that is read without an error
CsvFile(rows) == [exists |-> TRUE, error |-> "none", rows |-> rows]

CsvFiles == {CsvFile(c) : c \in Corpora} \cup {NoFile}

\* the CSV contents a client uploads
UploadedCorpora ==
  {<<Record({<<"Client / Applicant", AppleInc>>, <<"Trademark", Apple>>})>>,
   <<Record({<<"Client / Applicant", Acme>>, <<"Trademark", Absent>>}),
     Record({<<"Client / Applicant", AppleInc>>, <<"Trademark", Apple>>})>>}

(***************************************************************************)
(* Scores are integers in units of 1/Scale.  Scale is a multiple of 100,   *)
(* of 40 and of every possible max_len, so no division below has a         *)
(* remainder.                                                              *)
(***************************************************************************)
AllNames ==
  PairNames \cup {<<>>}
    \cup UNION {Range(r) : r \in StoredRecords \cup NewRecords}
    \cup UNION {Range(r) : r \in NearBandStored \cup NearBandNew}

MaxNameLen ==
  LET lens == {Len(normalize_name(n)) : n \in AllNames}
  IN CHOOSE m \in lens : \A l \in lens : l <= m

Scale == 200 * LcmUpTo(MaxNameLen)

\* the number n (an integer) as a score
Num(n) == n * Scale

\* the default similarity_threshold
DefaultThreshold == 50

Thresholds == {Num(-1), Num(0), Num(DefaultThreshold), Num(100)}

(***************************************************************************)
(* TrademarkComparator.phonetic_similarity                                 *)
(***************************************************************************)
\* 1.0 if the two codes are equal else 0.0
Match(code1, code2) == IF code1 = code2 THEN Num(1) ELSE 0

PhoneticScores(soundex_match, metaphone_match) ==
  [soundex |-> soundex_match,
   metaphone |-> metaphone_match,
   avg_phonetic |-> (soundex_match + metaphone_match) \div 2]

\* phonetic_similarity without its test for an empty name (C8 fails of it)
phonetic_unguarded(name1, name2) ==
  PhoneticScores(Match(soundex(normalize_name(name1)), soundex(normalize_name(name2))),
                 Match(metaphone(normalize_name(name1)),
                       metaphone(normalize_name(name2))))

phonetic_similarity(name1, name2) ==
  IF name1 = <<>> \/ name2 = <<>>
  THEN [soundex |-> 0, metaphone |-> 0, avg_phonetic |-> 0]
  ELSE LET OfNormalized(norm1, norm2) ==
             PhoneticScores(Match(soundex(norm1), soundex(norm2)),
                            Match(metaphone(norm1), metaphone(norm2)))
       IN With(normalize_name(name1),
               LAMBDA norm1 : With(normalize_name(name2),
                                   LAMBDA norm2 : OfNormalized(norm1, norm2)))

(***************************************************************************)
(* TrademarkComparator.fuzzy_similarity                                    *)
(***************************************************************************)
\* levenshtein_similarity with the distance added instead of subtracted (C7
\* fails of it)
levenshtein_added(levenshtein_dist, max_len) ==
  IF max_len > 0
  THEN (Scale \div max_len) * (max_len + levenshtein_dist) * 100
  ELSE 0

\* (1 - (levenshtein_dist / max_len)) * 100 if max_len > 0 else 0
levenshtein_similarity(levenshtein_dist, max_len) ==
  IF max_len > 0
  THEN (Scale \div max_len) * (max_len - levenshtein_dist) * 100
  ELSE 0

FuzzyScores(levenshtein, fuzzy_ratio, partial_ratio, token_sort_ratio) ==
  [levenshtein |-> levenshtein,
   fuzzy_ratio |-> fuzzy_ratio,
   partial_ratio |-> partial_ratio,
   token_sort |-> token_sort_ratio,
   avg_fuzzy |-> (levenshtein + fuzzy_ratio + partial_ratio + token_sort_ratio) \div 4]

\* fuzzy_similarity without its test for an empty name (C16 fails of it)
fuzzy_unguarded(name1, name2) ==
  LET OfNormalized(norm1, norm2) ==
        FuzzyScores(levenshtein_similarity(levenshtein_distance(norm1, norm2),
                                           Max2(Len(norm1), Len(norm2))),
                    Num(fuzz_ratio(norm1, norm2)),
                    Num(fuzz_partial_ratio(norm1, norm2)),
                    Num(fuzz_token_sort_ratio(norm1, norm2)))
  IN With(normalize_name(name1),
          LAMBDA norm1 : With(normalize_name(name2),
                              LAMBDA norm2 : OfNormalized(norm1, norm2)))

fuzzy_similarity(name1, name2) ==
  IF name1 = <<>> \/ name2 = <<>>
  THEN [levenshtein |-> 0, fuzzy_ratio |-> 0, partial_ratio |-> 0,
        token_sort |-> 0, avg_fuzzy |-> 0]
  ELSE LET OfNormalized(norm1, norm2) ==
             FuzzyScores(levenshtein_similarity(levenshtein_distance(norm1, norm2),
                                                Max2(Len(norm1), Len(norm2))),
                         Num(fuzz_ratio(norm1, norm2)),
                         Num(fuzz_partial_ratio(norm1, norm2)),
                         Num(fuzz_token_sort_ratio(norm1, norm2)))
       IN With(normalize_name(name1),
               LAMBDA norm1 : With(normalize_name(name2),
                                   LAMBDA norm2 : OfNormalized(norm1, norm2)))

(***************************************************************************)
(* TrademarkComparator.calculate_overall_similarity (score_pair)           *)
(***************************************************************************)
\* phonetic_weight = 0.3 and fuzzy_weight = 0.7, in tenths
PhoneticWeight == 3
FuzzyWeight == 7

\* Fuse with the two weights exchanged (C6 fails of it)
FuseExchanged(phonetic_scores, fuzzy_scores) ==
  [soundex |-> phonetic_scores.soundex,
   metaphone |-> phonetic_scores.metaphone,
   avg_phonetic |-> phonetic_scores.avg_phonetic,
   levenshtein |-> fuzzy_scores.levenshtein,
   fuzzy_ratio |-> fuzzy_scores.fuzzy_ratio,
   partial_ratio |-> fuzzy_scores.partial_ratio,
   token_sort |-> fuzzy_scores.token_sort,
   avg_fuzzy |-> fuzzy_scores.avg_fuzzy,
   overall_similarity |->
     ((phonetic_scores.avg_phonetic * FuzzyWeight) \div 10) * 100
       + (fuzzy_scores.avg_fuzzy * PhoneticWeight) \div 10]

\* the merged dictionary, with overall_similarity =
\* avg_phonetic * phonetic_weight * 100 + avg_fuzzy * fuzzy_weight
Fuse(phonetic_scores, fuzzy_scores) ==
  [soundex |-> phonetic_scores.soundex,
   metaphone |-> phonetic_scores.metaphone,
   avg_phonetic |-> phonetic_scores.avg_phonetic,
   levenshtein |-> fuzzy_scores.levenshtein,
   fuzzy_ratio |-> fuzzy_scores.fuzzy_ratio,
   partial_ratio |-> fuzzy_scores.partial_ratio,
   token_sort |-> fuzzy_scores.token_sort,
   avg_fuzzy |-> fuzzy_scores.avg_fuzzy,
   overall_similarity |->
     ((phonetic_scores.avg_phonetic * PhoneticWeight) \div 10) * 100
       + (fuzzy_scores.avg_fuzzy * FuzzyWeight) \div 10]

calculate_overall_similarity(name1, name2) ==
  With(phonetic_similarity(name1, name2),
       LAMBDA phonetic_scores :
         With(fuzzy_similarity(name1, name2),
              LAMBDA fuzzy_scores : Fuse(phonetic_scores, fuzzy_scores)))

\* calculate_overall_similarity is a pure function of the two names: its values
\* on the names of the model, computed once
SimilarityTable ==
  [n1 \in AllNames, n2 \in AllNames |-> calculate_overall_similarity(n1, n2)]

score_pair(name1, name2) == SimilarityTable[name1, name2]

(***************************************************************************)
(* TrademarkComparator.find_similar_trademarks                             *)
(***************************************************************************)
\* the test "not s" alone, without "not s.strip()" (C3 fails of it)
IsEmpty(s) == s = <<>>

\* "not s or not s.strip()"
IsBlank(s) == s = <<>> \/ strip(s) = <<>>

\* the fallback test on the stored record's Trademark
FallbackUsed(existing) == IsBlank(Get(existing, "Trademark"))

\* the stored record's text of the trademark comparison
ExistingLogoText(existing) ==
  IF FallbackUsed(existing) THEN Get(existing, "Client / Applicant")
  ELSE Get(existing, "Trademark")

\* NewName with the two keys tried in the other order (C13 fails of it)
NewNameLedgerFirst(new_trademark) ==
  Or(Get(new_trademark, "Client / Applicant"), Get(new_trademark, "name"))

NewName(new_trademark) ==
  Or(Get(new_trademark, "name"), Get(new_trademark, "Client / Applicant"))

NewLogoText(new_trademark) ==
  Or(Get(new_trademark, "text_in_logo"), Get(new_trademark, "Trademark"))

\* SimilarityType with ">=" for ">" (C4 fails of it)
SimilarityTypeTieToApplicant(fallback_used, name_similarity, logo_similarity) ==
  IF fallback_used THEN "applicant_name"
  ELSE IF name_similarity.overall_similarity >= logo_similarity.overall_similarity
       THEN "applicant"
       ELSE "trademark"

SimilarityType(fallback_used, name_similarity, logo_similarity) ==
  IF fallback_used THEN "applicant_name"
  ELSE IF name_similarity.overall_similarity > logo_similarity.overall_similarity
       THEN "applicant"
       ELSE "trademark"

\* the dictionary appended for a kept record (corpus_index stands for the
\* identity of the record object that existing_trademark refers to)
MakeCandidate(existing, i, name_similarity, logo_similarity, fallback_used) ==
  [existing_trademark |-> existing,
   corpus_index |-> i,
   name_similarity |-> name_similarity,
   logo_similarity |-> logo_similarity,
   max_similarity_score |->
     Max2(name_similarity.overall_similarity, logo_similarity.overall_similarity),
   similarity_type |-> SimilarityType(fallback_used, name_similarity, logo_similarity),
   fallback_used |-> fallback_used,
   comparison_note |->
     IF fallback_used
     THEN "Used Client/Applicant name for trademark comparison (Trademark column empty)"
     ELSE "Normal comparison"]

\* one pass of the loop body, for the stored record at position i
Candidate(existing_trademarks, i, new_trademark) ==
  With(score_pair(NewName(new_trademark),
                  Get(existing_trademarks[i], "Client / Applicant")),
       LAMBDA name_similarity :
         With(score_pair(NewLogoText(new_trademark),
                         ExistingLogoText(existing_trademarks[i])),
              LAMBDA logo_similarity :
                MakeCandidate(existing_trademarks[i], i, name_similarity,
                              logo_similarity,
                              FallbackUsed(existing_trademarks[i]))))

\* Kept with ">" for ">=" (C1 fails of it)
KeptAbove(candidate, similarity_threshold) ==
  candidate.max_similarity_score > similarity_threshold

\* "if max_similarity >= similarity_threshold"
Kept(candidate, similarity_threshold) ==
  candidate.max_similarity_score >= similarity_threshold

RECURSIVE SelectKept(_, _, _, _)
\* the loop over the corpus from position i on: the kept candidates in
\* corpus order
SelectKept(existing_trademarks, i, new_trademark, similarity_threshold) ==
  IF i > Len(existing_trademarks) THEN <<>>
  ELSE With(Candidate(existing_trademarks, i, new_trademark),
            LAMBDA c : IF Kept(c, similarity_threshold) THEN <<c>> ELSE <<>>)
       \o SelectKept(existing_trademarks, i + 1, new_trademark, similarity_threshold)

RECURSIVE InsertBeforeTies(_, _)
\* InsertDescending with c put in front of the candidates of equal score: a
\* sort that is not stable (C2 fails of it)
InsertBeforeTies(cs, c) ==
  IF cs = <<>> THEN <<c>>
  ELSE IF cs[1].max_similarity_score > c.max_similarity_score
       THEN <<cs[1]>> \o InsertBeforeTies(Tail(cs), c)
       ELSE <<c>> \o cs

RECURSIVE InsertDescending(_, _)
\* c put into the descending sequence cs behind every candidate whose score
\* is at least its own
InsertDescending(cs, c) ==
  IF cs = <<>> THEN <<c>>
  ELSE IF cs[1].max_similarity_score >= c.max_similarity_score
       THEN <<cs[1]>> \o InsertDescending(Tail(cs), c)
       ELSE <<c>> \o cs

RECURSIVE sort_descending(_)
\* list.sort(key=max_similarity_score, reverse=True): stable
sort_descending(cs) ==
  IF cs = <<>> THEN <<>>
  ELSE InsertDescending(sort_descending(SubSeq(cs, 1, Len(cs) - 1)), cs[Len(cs)])

find_similar_trademarks(existing_trademarks, new_trademark, similarity_threshold) ==
  IF existing_trademarks = <<>> THEN <<>>
  ELSE sort_descending(SelectKept(existing_trademarks, 1, new_trademark,
                                  similarity_threshold))

(***************************************************************************)
(* TrademarkComparator.classify_similarity_level                           *)
(***************************************************************************)
HighBand == 85
MediumBand == 70
LowBand == 50

\* classify_similarity_level with ">" for ">=" (C5 fails of it)
classify_above(score) ==
  IF score > Num(HighBand) THEN "HIGH - Likely same brand"
  ELSE IF score > Num(MediumBand) THEN "MEDIUM - Potential conflict"
  ELSE IF score > Num(LowBand) THEN "LOW - Worth reviewing"
  ELSE "MINIMAL - No significant similarity"

classify_similarity_level(score) ==
  IF score >= Num(HighBand) THEN "HIGH - Likely same brand"
  ELSE IF score >= Num(MediumBand) THEN "MEDIUM - Potential conflict"
  ELSE IF score >= Num(LowBand) THEN "LOW - Worth reviewing"
  ELSE "MINIMAL - No significant similarity"

(***************************************************************************)
(* TrademarkComparator.generate_comparison_report                          *)
(***************************************************************************)
\* round(score, 2) of a non-negative score
round2(score) == RoundHalfEven(score, Scale \div 100) * (Scale \div 100)

\* detailed with avg_phonetic not multiplied by 100 (the amended C15 fails of
\* it)
detailed_unscaled(similarity) ==
  [phonetic |-> [soundex |-> similarity.soundex,
                 metaphone |-> similarity.metaphone,
                 avg_phonetic |-> round2(similarity.avg_phonetic)],
   fuzzy |-> [levenshtein |-> round2(similarity.levenshtein),
              fuzzy_ratio |-> similarity.fuzzy_ratio,
              partial_ratio |-> similarity.partial_ratio,
              token_sort |-> similarity.token_sort,
              avg_fuzzy |-> round2(similarity.avg_fuzzy)],
   overall |-> round2(similarity.overall_similarity)]

\* the "phonetic"/"fuzzy"/"overall" breakdown of one PairSimilarity
detailed(similarity) ==
  [phonetic |-> [soundex |-> similarity.soundex,
                 metaphone |-> similarity.metaphone,
                 avg_phonetic |-> round2(similarity.avg_phonetic * 100)],
   fuzzy |-> [levenshtein |-> round2(similarity.levenshtein),
              fuzzy_ratio |-> similarity.fuzzy_ratio,
              partial_ratio |-> similarity.partial_ratio,
              token_sort |-> similarity.token_sort,
              avg_fuzzy |-> round2(similarity.avg_fuzzy)],
   overall |-> round2(similarity.overall_similarity)]

\* match_report with similarity_score left unrounded (C14 fails of it)
match_report_unrounded(match) ==
  [existing_trademark |-> match.existing_trademark,
   similarity_score |-> match.max_similarity_score,
   similarity_level |-> classify_similarity_level(match.max_similarity_score),
   similarity_type |-> match.similarity_type,
   detailed_scores |-> [name_comparison |-> detailed(match.name_similarity),
                        logo_comparison |-> detailed(match.logo_similarity)]]

match_report(match) ==
  [existing_trademark |-> match.existing_trademark,
   similarity_score |-> round2(match.max_similarity_score),
   similarity_level |-> classify_similarity_level(match.max_similarity_score),
   similarity_type |-> match.similarity_type,
   detailed_scores |-> [name_comparison |-> detailed(match.name_similarity),
                        logo_comparison |-> detailed(match.logo_similarity)]]

\* MakeReport with the corpus size off by one (C17 fails of it)
MakeReportOffByOne(existing_trademarks, new_trademark, similarity_threshold, similar_trademarks) ==
  [new_trademark |->
     [name |-> NewName(new_trademark),
      trademark |-> NewLogoText(new_trademark),
      application_no |-> Or(Get(new_trademark, "registration_number"),
                            Get(new_trademark, "Application No.")),
      class |-> Or(Get(new_trademark, "business_category"), Get(new_trademark, "Class")),
      status |-> Or(Get(new_trademark, "legal_status"), Get(new_trademark, "Status"))],
   total_existing_trademarks |-> Len(existing_trademarks) + 1,
   similar_trademarks_found |-> Len(similar_trademarks),
   similarity_threshold |-> similarity_threshold,
   matches |-> [i \in 1..Len(similar_trademarks) |-> match_report(similar_trademarks[i])]]

\* the report dictionary around the ranked candidates
MakeReport(existing_trademarks, new_trademark, similarity_threshold, similar_trademarks) ==
  [new_trademark |->
     [name |-> NewName(new_trademark),
      trademark |-> NewLogoText(new_trademark),
      application_no |-> Or(Get(new_trademark, "registration_number"),
                            Get(new_trademark, "Application No.")),
      class |-> Or(Get(new_trademark, "business_category"), Get(new_trademark, "Class")),
      status |-> Or(Get(new_trademark, "legal_status"), Get(new_trademark, "Status"))],
   total_existing_trademarks |-> Len(existing_trademarks),
   similar_trademarks_found |-> Len(similar_trademarks),
   similarity_threshold |-> similarity_threshold,
   matches |-> [i \in 1..Len(similar_trademarks) |-> match_report(similar_trademarks[i])]]

generate_comparison_report(existing_trademarks, new_trademark, similarity_threshold) ==
  With(find_similar_trademarks(existing_trademarks, new_trademark, similarity_threshold),
       LAMBDA similar_trademarks :
         MakeReport(existing_trademarks, new_trademark, similarity_threshold,
                    similar_trademarks))

(***************************************************************************)
(* State.  csv_file is the trademark CSV on disk (its rows, or NoFile);    *)
(* existing_trademarks is the corpus of the comparator (the controller has *)
(* one comparator for all requests); call is the engine call in progress   *)
(* with its arguments and, once computed, its return value; requests holds *)
(* for each HTTP request its handler, where the handler stands, and its    *)
(* response.                                                               *)
(***************************************************************************)
VARIABLES csv_file, existing_trademarks, call, requests

vars == <<csv_file, existing_trademarks, call, requests>>

Idle == [op |-> "idle"]

\* number of HTTP requests the controller serves
NumRequests == 2

Requests == 1..NumRequests

\* a request that has not arrived
NoRequest == [handler |-> "none"]

\* TrademarkComparator(): the corpus starts empty; the file is whatever is on disk
Init ==
  /\ csv_file \in CsvFiles
  /\ existing_trademarks = <<>>
  /\ call = Idle
  /\ requests = [r \in Requests |-> NoRequest]

\* the exception raised inside the try block of the load
read_error(file) == IF file.exists THEN file.error ELSE "FileNotFoundError"

\* the exceptions other than FileNotFoundError that opening, decoding or
\* parsing the file raises; each is a subclass of Exception
ReadErrors == {"PermissionError", "UnicodeDecodeError"}

\* a load whose second except clause is missing: the exception leaves the
\* method and the corpus stays as it was (C23 fails of it)
LoadCsvFileNotFoundOnly(before, file) ==
  IF read_error(file) = "none"
  THEN [existing_trademarks |-> file.rows, raised |-> "none"]
  ELSE IF read_error(file) = "FileNotFoundError"
  THEN [existing_trademarks |-> <<>>, raised |-> "none"]
  ELSE [existing_trademarks |-> before, raised |-> read_error(file)]

\* the try statement of the load: the corpus it leaves in the comparator,
\* starting from the corpus before, and the exception that leaves the method
LoadCsv(before, file) ==
  IF read_error(file) = "none"
  THEN [existing_trademarks |-> file.rows, raised |-> "none"]
  ELSE IF read_error(file) = "FileNotFoundError"
  THEN [existing_trademarks |-> <<>>, raised |-> "none"]
  ELSE IF read_error(file) \in ReadErrors
  THEN [existing_trademarks |-> <<>>, raised |-> "none"]
  ELSE [existing_trademarks |-> before, raised |-> read_error(file)]

\* load_existing_trademarks_from_csv: the rows of the file, or no rows when
\* the file cannot be read (before is the corpus the call found)
load_existing_trademarks_from_csv ==
  /\ call = Idle
  /\ existing_trademarks' = LoadCsv(existing_trademarks, csv_file).existing_trademarks
  /\ call' = [op |-> "load_existing_trademarks_from_csv",
              before |-> existing_trademarks,
              raised |-> LoadCsv(existing_trademarks, csv_file).raised]
  /\ UNCHANGED <<csv_file, requests>>

\* the files a load meets: missing, readable, and failing after some rows
LoadFiles ==
  {NoFile}
    \cup {CsvFile(c) : c \in UploadedCorpora}
    \cup {[exists |-> TRUE, error |-> e, rows |-> c] :
            e \in ReadErrors, c \in UploadedCorpora \cup {<<>>}}

\* the file on disk is replaced, removed or made unreadable
ReplaceCsvFile(file) ==
  /\ call = Idle
  /\ csv_file' = file
  /\ UNCHANGED <<existing_trademarks, call, requests>>

\* FindSimilar with the corpus itself filtered and sorted in place (C19
\* fails of it)
FindSimilarInPlace(new_trademark, similarity_threshold) ==
  /\ call = Idle
  /\ call' = [op |-> "find_similar_trademarks",
              new_trademark |-> new_trademark,
              similarity_threshold |-> similarity_threshold,
              result |-> find_similar_trademarks(existing_trademarks, new_trademark,
                                                 similarity_threshold)]
  /\ existing_trademarks' =
       [k \in DOMAIN call'.result |-> call'.result[k].existing_trademark]
  /\ UNCHANGED <<csv_file, requests>>

FindSimilar(new_trademark, similarity_threshold) ==
  /\ call = Idle
  /\ call' = [op |-> "find_similar_trademarks",
              new_trademark |-> new_trademark,
              similarity_threshold |-> similarity_threshold,
              result |-> find_similar_trademarks(existing_trademarks, new_trademark,
                                                 similarity_threshold)]
  /\ UNCHANGED <<csv_file, existing_trademarks, requests>>

GenerateReport(new_trademark, similarity_threshold) ==
  /\ call = Idle
  /\ call' = [op |-> "generate_comparison_report",
              new_trademark |-> new_trademark,
              similarity_threshold |-> similarity_threshold,
              result |-> generate_comparison_report(existing_trademarks, new_trademark,
                                                    similarity_threshold)]
  /\ UNCHANGED <<csv_file, existing_trademarks, requests>>

ScorePair(name1, name2) ==
  /\ call = Idle
  /\ call' = [op |-> "calculate_overall_similarity",
              name1 |-> name1,
              name2 |-> name2,
              result |-> score_pair(name1, name2)]
  /\ UNCHANGED <<csv_file, existing_trademarks, requests>>

\* the scores classify is applied to: every hundredth from 49.00 to 86.00,
\* and the ends of the scale
ClassifyScores ==
  {k * (Scale \div 100) : k \in (100 * (LowBand - 1))..(100 * (HighBand + 1))}
    \cup {0, Num(100)}

Classify(score) ==
  /\ call = Idle
  /\ call' = [op |-> "classify_similarity_level",
              score |-> score,
              result |-> classify_similarity_level(score)]
  /\ UNCHANGED <<csv_file, existing_trademarks, requests>>

\* longest raw string normalize_name is applied to
MaxRawLen == 3

\* the characters of those strings: a letter of each case, a digit, the two
\* kinds of whitespace, punctuation and the underscore
RawChars == {"A", "b", "1", " ", "\t", ".", "-", "_"}

RawNames == SeqsUpTo(RawChars, MaxRawLen)

Normalize(name) ==
  /\ call = Idle
  /\ call' = [op |-> "normalize_name",
              name |-> name,
              result |-> normalize_name(name)]
  /\ UNCHANGED <<csv_file, existing_trademarks, requests>>

\* the caller takes the return value
Return ==
  /\ call # Idle
  /\ call' = Idle
  /\ UNCHANGED <<csv_file, existing_trademarks, requests>>

Next ==
  \/ load_existing_trademarks_from_csv
  \/ \E r \in NewRecords, th \in Thresholds : FindSimilar(r, th)
  \/ \E r \in NewRecords, th \in Thresholds : GenerateReport(r, th)
  \/ \E n1 \in PairNames, n2 \in PairNames : ScorePair(n1, n2)
  \/ \E s \in ClassifyScores : Classify(s)
  \/ \E n \in RawNames : Normalize(n)
  \/ \E file \in LoadFiles : ReplaceCsvFile(file)
  \/ Return

Spec == Init /\ [][Next]_vars

(***************************************************************************)
(* The controller (trademark_controller.py).  Its handlers are coroutines  *)
(* on one event loop: a handler runs without interruption up to an await,  *)
(* where other requests may run, and all handlers use the one comparator.  *)
(***************************************************************************)
\* the rows csv.DictReader reads from the file, none when it cannot be opened
rows_of(file) == LoadCsv(<<>>, file).existing_trademarks

\* what the extractor returns for an uploaded PDF: one record per page
PdfExtractions ==
  {<<>>,
   <<Record({<<"name", Acme>>, <<"text_in_logo", Apple>>})>>,
   <<Record({<<"name", Acme>>, <<"text_in_logo", Apple>>}),
     Record({<<"name", Empty>>, <<"text_in_logo", Apple>>})>>}

\* request.get("trademark", {}) of a /compare/trademark request
TrademarkBodies ==
  {Record({}), Record({<<"Client / Applicant", Acme>>, <<"Trademark", Apple>>})}

\* the HTTPException of a handler's "except Exception" clause
ServerError == [status_code |-> 500]

\* /extract/trademark/pdf_with_comparison up to "await file.read()": the
\* file type is validated and the corpus is loaded into the comparator
StartPdfCompare(r, is_pdf, similarity_threshold) ==
  /\ call = Idle
  /\ requests[r] = NoRequest
  /\ IF is_pdf
     THEN /\ existing_trademarks' = rows_of(csv_file)
          /\ requests' = [requests EXCEPT ![r] =
               [handler |-> "extract_and_compare_trademark_from_pdf",
                pc |-> "file.read",
                similarity_threshold |-> similarity_threshold,
                loaded |-> rows_of(csv_file)]]
     ELSE /\ requests' = [requests EXCEPT ![r] =
               [handler |-> "extract_and_compare_trademark_from_pdf",
                pc |-> "done",
                is_pdf |-> FALSE,
                response |-> ServerError]]
          /\ UNCHANGED existing_trademarks
  /\ UNCHANGED <<csv_file, call>>

\* ResumePdfCompare with reports whose matches are found in the corpus the
\* request loaded and whose total counts the corpus held now (C22 fails of it)
ResumePdfCompareStale(r, trademarks_data) ==
  /\ call = Idle
  /\ requests[r].handler = "extract_and_compare_trademark_from_pdf"
  /\ requests[r].pc = "file.read"
  /\ requests' = [requests EXCEPT ![r] =
       [handler |-> "extract_and_compare_trademark_from_pdf",
        pc |-> "done",
        similarity_threshold |-> requests[r].similarity_threshold,
        loaded |-> requests[r].loaded,
        response |->
          [status_code |-> 200,
           total_pages |-> Len(trademarks_data),
           extracted_trademarks |-> trademarks_data,
           comparison_results |->
             [i \in 1..Len(trademarks_data) |->
                MakeReport(existing_trademarks, trademarks_data[i],
                           requests[r].similarity_threshold,
                           find_similar_trademarks(requests[r].loaded,
                                                   trademarks_data[i],
                                                   requests[r].similarity_threshold))],
           similarity_threshold |-> requests[r].similarity_threshold]]]
  /\ UNCHANGED <<csv_file, existing_trademarks, call>>

\* the rest of the handler: the extractor reads the pages and every
\* extracted record is compared with the corpus the comparator holds now
ResumePdfCompare(r, trademarks_data) ==
  /\ call = Idle
  /\ requests[r].handler = "extract_and_compare_trademark_from_pdf"
  /\ requests[r].pc = "file.read"
  /\ requests' = [requests EXCEPT ![r] =
       [handler |-> "extract_and_compare_trademark_from_pdf",
        pc |-> "done",
        similarity_threshold |-> requests[r].similarity_threshold,
        loaded |-> requests[r].loaded,
        response |->
          [status_code |-> 200,
           total_pages |-> Len(trademarks_data),
           extracted_trademarks |-> trademarks_data,
           comparison_results |->
             [i \in 1..Len(trademarks_data) |->
                generate_comparison_report(existing_trademarks, trademarks_data[i],
                                           requests[r].similarity_threshold)],
           similarity_threshold |-> requests[r].similarity_threshold]]]
  /\ UNCHANGED <<csv_file, existing_trademarks, call>>

\* /compare/trademark: validation, load and report without an await between
CompareWithDatabase(r, trademark_data, similarity_threshold) ==
  /\ call = Idle
  /\ requests[r] = NoRequest
  /\ IF DOMAIN trademark_data = {}
     THEN /\ requests' = [requests EXCEPT ![r] =
               [handler |-> "compare_trademark_with_database",
                pc |-> "done",
                trademark_data |-> trademark_data,
                response |-> ServerError]]
          /\ UNCHANGED existing_trademarks
     ELSE /\ existing_trademarks' = rows_of(csv_file)
          /\ requests' = [requests EXCEPT ![r] =
               [handler |-> "compare_trademark_with_database",
                pc |-> "done",
                trademark_data |-> trademark_data,
                similarity_threshold |-> similarity_threshold,
                loaded |-> rows_of(csv_file),
                response |->
                  [status_code |-> 200,
                   comparison_report |->
                     generate_comparison_report(rows_of(csv_file), trademark_data,
                                                similarity_threshold)]]]
  /\ UNCHANGED <<csv_file, call>>

\* /csv/upload up to "await file.read()": the file type is validated
StartUploadCsv(r, is_csv, file_content) ==
  /\ call = Idle
  /\ requests[r] = NoRequest
  /\ requests' = [requests EXCEPT ![r] =
       IF is_csv
       THEN [handler |-> "upload_csv_database",
             pc |-> "file.read",
             file_content |-> file_content]
       ELSE [handler |-> "upload_csv_database",
             pc |-> "done",
             response |-> ServerError]]
  /\ UNCHANGED <<csv_file, existing_trademarks, call>>

\* the rest of the handler: the content replaces the CSV file and is loaded
\* into the comparator
ResumeUploadCsv(r) ==
  /\ call = Idle
  /\ requests[r].handler = "upload_csv_database"
  /\ requests[r].pc = "file.read"
  /\ csv_file' = CsvFile(requests[r].file_content)
  /\ existing_trademarks' = requests[r].file_content
  /\ requests' = [requests EXCEPT ![r] =
       [handler |-> "upload_csv_database",
        pc |-> "done",
        response |-> [status_code |-> 200]]]
  /\ UNCHANGED call

InitController ==
  /\ csv_file \in {NoFile} \cup {CsvFile(c) : c \in UploadedCorpora}
  /\ existing_trademarks = <<>>
  /\ call = Idle
  /\ requests = [r \in Requests |-> NoRequest]

NextController ==
  \/ \E r \in Requests, is_pdf \in BOOLEAN :
       StartPdfCompare(r, is_pdf, Num(DefaultThreshold))
  \/ \E r \in Requests, trademarks_data \in PdfExtractions :
       ResumePdfCompare(r, trademarks_data)
  \/ \E r \in Requests, trademark_data \in TrademarkBodies :
       CompareWithDatabase(r, trademark_data, Num(DefaultThreshold))
  \/ \E r \in Requests, is_csv \in BOOLEAN, file_content \in UploadedCorpora :
       StartUploadCsv(r, is_csv, file_content)
  \/ \E r \in Requests : ResumeUploadCsv(r)

SpecController == InitController /\ [][NextController]_vars

\* the matcher alone: loading the corpus, matching and reporting
NextMatcher ==
  \/ load_existing_trademarks_from_csv
  \/ \E r \in NewRecords, th \in Thresholds : FindSimilar(r, th)
  \/ \E r \in NewRecords, th \in Thresholds : GenerateReport(r, th)
  \/ Return

SpecMatcher == Init /\ [][NextMatcher]_vars

\* reporting alone, on records whose scores lie next to a band
InitNearBand ==
  /\ csv_file \in {CsvFile(c) : c \in SeqsUpTo(NearBandStored, MaxCorpus)}
  /\ existing_trademarks = <<>>
  /\ call = Idle
  /\ requests = [r \in Requests |-> NoRequest]

NextNearBand ==
  \/ load_existing_trademarks_from_csv
  \/ \E r \in NearBandNew, th \in Thresholds : GenerateReport(r, th)
  \/ Return

SpecNearBand == InitNearBand /\ [][NextNearBand]_vars

\* loading alone: the file on disk changes between loads and comparisons
InitLoad ==
  /\ csv_file \in LoadFiles
  /\ existing_trademarks = <<>>
  /\ call = Idle
  /\ requests = [r \in Requests |-> NoRequest]

NextLoad ==
  \/ load_existing_trademarks_from_csv
  \/ \E file \in LoadFiles : ReplaceCsvFile(file)
  \/ \E r \in NewRecords, th \in Thresholds : FindSimilar(r, th)
  \/ \E r \in NewRecords, th \in Thresholds : GenerateReport(r, th)
  \/ Return

SpecLoad == InitLoad /\ [][NextLoad]_vars

\* the pure scoring functions alone, on inputs drawn from PairNames and
\* ClassifyScores
InitScore ==
  /\ csv_file = NoFile
  /\ existing_trademarks = <<>>
  /\ call = Idle
  /\ requests = [r \in Requests |-> NoRequest]

NextScore ==
  \/ \E n1 \in PairNames, n2 \in PairNames : ScorePair(n1, n2)
  \/ \E s \in ClassifyScores : Classify(s)
  \/ Return

SpecScore == InitScore /\ [][NextScore]_vars

\* normalize_name alone, on the strings of RawNames
NextNormalize ==
  \/ \E n \in RawNames : Normalize(n)
  \/ Return

SpecNormalize == InitScore /\ [][NextNormalize]_vars

(***************************************************************************)
(* Properties.  Each is a predicate on the call in progress: the arguments *)
(* it was made with, the corpus it ran on and the value it returned.       *)
(***************************************************************************)
Matching == call.op = "find_similar_trademarks"
Reporting == call.op = "generate_comparison_report"
Scoring == call.op = "calculate_overall_similarity"
Classifying == call.op = "classify_similarity_level"
Normalizing == call.op = "normalize_name"

\* a string of whitespace only (the empty string included)
OnlyWhitespace(s) == \A k \in DOMAIN s : IsSpace(s[k])

\* overall score of the call's new record against the stored record at i:
\* names, and trademark texts after the fallback
NameOverall(i) ==
  score_pair(NewName(call.new_trademark),
             Get(existing_trademarks[i], "Client / Applicant")).overall_similarity

LogoOverall(i) ==
  score_pair(NewLogoText(call.new_trademark),
             ExistingLogoText(existing_trademarks[i])).overall_similarity

\* the positions of the result that hold the stored record at i
PositionsOf(i) == {k \in DOMAIN call.result : call.result[k].corpus_index = i}

\* C1: find_similar_trademarks returns exactly the stored records whose
\* max_similarity_score, the larger of the name comparison's and the
\* trademark comparison's overall score, is >= the threshold: each such record
\* once, and no record below the threshold.
C1_KeptExactlyAtOrAboveThreshold ==
  Matching =>
    /\ \A i \in 1..Len(existing_trademarks) :
         Cardinality(PositionsOf(i)) =
           IF Max2(NameOverall(i), LogoOverall(i)) >= call.similarity_threshold
           THEN 1 ELSE 0
    /\ \A k \in DOMAIN call.result :
         /\ call.result[k].corpus_index \in 1..Len(existing_trademarks)
         /\ call.result[k].existing_trademark =
              existing_trademarks[call.result[k].corpus_index]
         /\ call.result[k].max_similarity_score =
              Max2(NameOverall(call.result[k].corpus_index),
                   LogoOverall(call.result[k].corpus_index))

\* a record scoring exactly the threshold is kept while another is dropped
C1_Witness ==
  /\ Matching
  /\ call.similarity_threshold > 0
  /\ \E i, j \in 1..Len(existing_trademarks) :
       /\ Max2(NameOverall(i), LogoOverall(i)) = call.similarity_threshold
       /\ PositionsOf(i) # {}
       /\ Max2(NameOverall(j), LogoOverall(j)) < call.similarity_threshold
       /\ PositionsOf(j) = {}

\* C2: the returned list is in descending order of max_similarity_score, and
\* candidates of equal score keep the order their records have in the corpus.
C2_DescendingAndStable ==
  Matching =>
    \A k, l \in DOMAIN call.result :
      k < l =>
        \/ call.result[k].max_similarity_score > call.result[l].max_similarity_score
        \/ /\ call.result[k].max_similarity_score = call.result[l].max_similarity_score
           /\ call.result[k].corpus_index < call.result[l].corpus_index

\* two different records are kept with the same score
C2_Witness ==
  /\ Matching
  /\ Len(call.result) = 2
  /\ call.result[1].max_similarity_score = call.result[2].max_similarity_score
  /\ call.result[1].existing_trademark # call.result[2].existing_trademark

\* C3 as stated: the fallback to the stored "Client / Applicant" name happens
\* exactly when the stored "Trademark" is absent or empty; for any other
\* Trademark value fallback_used is false and the Trademark is compared.
C3_FallbackIffAbsentOrEmpty ==
  Matching =>
    \A k \in DOMAIN call.result :
      IF Get(call.result[k].existing_trademark, "Trademark") = <<>>
      THEN /\ call.result[k].fallback_used
           /\ call.result[k].similarity_type = "applicant_name"
           /\ call.result[k].logo_similarity =
                score_pair(NewLogoText(call.new_trademark),
                           Get(call.result[k].existing_trademark, "Client / Applicant"))
      ELSE /\ ~call.result[k].fallback_used
           /\ call.result[k].logo_similarity =
                score_pair(NewLogoText(call.new_trademark),
                           Get(call.result[k].existing_trademark, "Trademark"))

\* C3 amended: the fallback to the stored "Client / Applicant" name happens
\* exactly when the stored "Trademark" is absent, empty or only whitespace:
\* then the name is compared, fallback_used is true and similarity_type is
\* "applicant_name"; otherwise fallback_used is false and the Trademark is
\* compared.
C3_FallbackIffAbsentEmptyOrBlank ==
  Matching =>
    \A k \in DOMAIN call.result :
      IF OnlyWhitespace(Get(call.result[k].existing_trademark, "Trademark"))
      THEN /\ call.result[k].fallback_used
           /\ call.result[k].similarity_type = "applicant_name"
           /\ call.result[k].logo_similarity =
                score_pair(NewLogoText(call.new_trademark),
                           Get(call.result[k].existing_trademark, "Client / Applicant"))
      ELSE /\ ~call.result[k].fallback_used
           /\ call.result[k].logo_similarity =
                score_pair(NewLogoText(call.new_trademark),
                           Get(call.result[k].existing_trademark, "Trademark"))

\* a kept record with a Trademark of one space, and one with a Trademark that
\* is compared
C3_Witness ==
  /\ Matching
  /\ \E k, l \in DOMAIN call.result :
       /\ Get(call.result[k].existing_trademark, "Trademark") = Blank
       /\ call.result[k].fallback_used
       /\ call.result[k].logo_similarity.overall_similarity > 0
       /\ Get(call.result[l].existing_trademark, "Trademark") = Apple
       /\ ~call.result[l].fallback_used

\* C4: without the fallback, similarity_type is "applicant" if the name
\* comparison's overall score is strictly greater than the trademark
\* comparison's, and "trademark" otherwise, equal scores included.
C4_ApplicantOnlyIfStrictlyGreater ==
  Matching =>
    \A k \in DOMAIN call.result :
      ~call.result[k].fallback_used =>
        call.result[k].similarity_type =
          IF NameOverall(call.result[k].corpus_index) >
               score_pair(NewLogoText(call.new_trademark),
                          Get(call.result[k].existing_trademark, "Trademark")
                         ).overall_similarity
          THEN "applicant"
          ELSE "trademark"

\* a candidate whose two comparisons agree on a positive score
C4_Witness ==
  /\ Matching
  /\ \E k \in DOMAIN call.result :
       /\ ~call.result[k].fallback_used
       /\ call.result[k].name_similarity.overall_similarity > 0
       /\ call.result[k].name_similarity.overall_similarity =
            call.result[k].logo_similarity.overall_similarity
       /\ call.result[k].similarity_type = "trademark"

\* the score of the classify call in hundredths
Hundredths == call.score \div (Scale \div 100)

\* C5: classify gives HIGH from 85.00 on, MEDIUM from 70.00 to 84.99, LOW from
\* 50.00 to 69.99 and MINIMAL below 50.00.
C5_LowerInclusiveBands ==
  Classifying =>
    /\ Hundredths * (Scale \div 100) = call.score
    /\ call.result =
         IF Hundredths >= 8500 THEN "HIGH - Likely same brand"
         ELSE IF Hundredths >= 7000 THEN "MEDIUM - Potential conflict"
         ELSE IF Hundredths >= 5000 THEN "LOW - Worth reviewing"
         ELSE "MINIMAL - No significant similarity"
    /\ Hundredths = 8500 => call.result = "HIGH - Likely same brand"
    /\ Hundredths = 8499 => call.result = "MEDIUM - Potential conflict"
    /\ Hundredths = 7000 => call.result = "MEDIUM - Potential conflict"
    /\ Hundredths = 6999 => call.result = "LOW - Worth reviewing"
    /\ Hundredths = 5000 => call.result = "LOW - Worth reviewing"
    /\ Hundredths = 4999 => call.result = "MINIMAL - No significant similarity"

\* a score on a band's lower edge has been classified
C5_Witness ==
  /\ Classifying
  /\ Hundredths = 7000
  /\ call.result = "MEDIUM - Potential conflict"

\* C6: overall_similarity = avg_phonetic * 0.3 * 100 + avg_fuzzy * 0.7, with
\* avg_phonetic the mean of the two 0/1 flags and avg_fuzzy the mean of the
\* four fuzzy sub-scores; avg_phonetic 1 and avg_fuzzy 100 give exactly 100.
C6_FusionFormula ==
  Scoring =>
    /\ call.result.soundex \in {0, Num(1)}
    /\ call.result.metaphone \in {0, Num(1)}
    /\ 2 * call.result.avg_phonetic = call.result.soundex + call.result.metaphone
    /\ 4 * call.result.avg_fuzzy =
         call.result.levenshtein + call.result.fuzzy_ratio
           + call.result.partial_ratio + call.result.token_sort
    /\ 10 * call.result.overall_similarity =
         3 * 100 * call.result.avg_phonetic + 7 * call.result.avg_fuzzy
    /\ (call.result.avg_phonetic = Num(1) /\ call.result.avg_fuzzy = Num(100))
         => call.result.overall_similarity = Num(100)

\* a pair with one phonetic flag set and a fuzzy mean strictly inside the scale
C6_Witness ==
  /\ Scoring
  /\ call.result.soundex # call.result.metaphone
  /\ call.result.avg_fuzzy > 0
  /\ call.result.avg_fuzzy < Num(100)

\* C7: the phonetic flags are 0 or 1, the four fuzzy sub-scores lie in
\* [0,100], and overall_similarity lies in [0,100].
C7_ScoresInRange ==
  Scoring =>
    /\ {call.result.soundex, call.result.metaphone} \subseteq {0, Num(1)}
    /\ \A s \in {call.result.levenshtein, call.result.fuzzy_ratio,
                  call.result.partial_ratio, call.result.token_sort,
                  call.result.avg_fuzzy, call.result.overall_similarity} :
         0 <= s /\ s <= Num(100)

\* two different names reach the top of the scale
C7_Witness ==
  /\ Scoring
  /\ call.name1 # call.name2
  /\ call.result.overall_similarity = Num(100)

\* C8: if either name is empty, every sub-score, both means and
\* overall_similarity are zero, whatever the other name is.
C8_EmptyNameScoresZero ==
  (Scoring /\ (call.name1 = <<>> \/ call.name2 = <<>>)) =>
    \A f \in {"soundex", "metaphone", "avg_phonetic", "levenshtein", "fuzzy_ratio",
              "partial_ratio", "token_sort", "avg_fuzzy", "overall_similarity"} :
      call.result[f] = 0

\* the empty name has been scored against a name that is not empty
C8_Witness ==
  /\ Scoring
  /\ call.name1 = <<>>
  /\ call.name2 = Apple
  /\ call.result.avg_phonetic = 0
  /\ call.result.avg_fuzzy = 0
  /\ call.result.overall_similarity = 0

\* C9: for every non-empty name s, score_pair(s, s) has both phonetic flags 1,
\* the four fuzzy sub-scores 100 and overall_similarity 100.
C9_IdenticalNamesScoreHundred ==
  (Scoring /\ call.name1 # <<>> /\ call.name1 = call.name2) =>
    /\ call.result.soundex = Num(1)
    /\ call.result.metaphone = Num(1)
    /\ call.result.levenshtein = Num(100)
    /\ call.result.fuzzy_ratio = Num(100)
    /\ call.result.partial_ratio = Num(100)
    /\ call.result.token_sort = Num(100)
    /\ call.result.overall_similarity = Num(100)

\* C10: at threshold 50.0, a stored record whose Trademark is identical to the
\* new record's non-empty trademark text is among the report's matches and is
\* classified HIGH, whatever the applicant names are.
C10_IdenticalTrademarkReportedHigh ==
  (Reporting /\ call.similarity_threshold = Num(DefaultThreshold)) =>
    \A i \in 1..Len(existing_trademarks) :
      (/\ NewLogoText(call.new_trademark) # <<>>
       /\ Get(existing_trademarks[i], "Trademark") = NewLogoText(call.new_trademark))
        => \E k \in DOMAIN call.result.matches :
             /\ call.result.matches[k].existing_trademark = existing_trademarks[i]
             /\ call.result.matches[k].similarity_level = "HIGH - Likely same brand"

\* C11: normalize_name returns a string for every input, the empty string
\* included, and normalizing its result again changes nothing.
C11_NormalizeIdempotent ==
  Normalizing =>
    /\ \A k \in DOMAIN call.result : call.result[k] \in Range(CodePoints)
    /\ call.name = <<>> => call.result = <<>>
    /\ normalize_name(call.result) = call.result

\* a name that normalization changes into a non-empty result
C11_Witness ==
  /\ Normalizing
  /\ call.name = <<"A", ".", " ">>
  /\ call.result = <<"a">>

\* C12: the normalized name contains only lower-case letters, digits and
\* single spaces (an underscore or a hyphen is replaced by a space), with no
\* leading or trailing space.
C12_OnlyLettersDigitsSingleSpaces ==
  Normalizing =>
    /\ \A k \in DOMAIN call.result :
         IsLower(call.result[k]) \/ IsDigit(call.result[k]) \/ call.result[k] = " "
    /\ \A k \in 1..(Len(call.result) - 1) :
         ~(call.result[k] = " " /\ call.result[k + 1] = " ")
    /\ call.result # <<>> =>
         (call.result[1] # " " /\ call.result[Len(call.result)] # " ")

\* the value of the first of two keys that is present and not empty, else of
\* the second, else the empty string
FirstOf(record, first, second) ==
  IF first \in DOMAIN record /\ record[first] # <<>> THEN record[first]
  ELSE IF second \in DOMAIN record THEN record[second]
  ELSE <<>>

\* a stored record without any key but "Client / Applicant" and "Trademark"
LedgerKeysOf(record) ==
  [k \in DOMAIN record \cap {"Client / Applicant", "Trademark"} |-> record[k]]

\* C13: the new record's name is its "name" when present and non-empty, else
\* its "Client / Applicant"; its trademark text is its "text_in_logo" when
\* present and non-empty, else its "Trademark"; of a stored record only
\* "Client / Applicant" and "Trademark" are read, so its "name" and
\* "text_in_logo" never influence a score.
C13_AsymmetricFieldResolution ==
  Matching =>
    \A k \in DOMAIN call.result :
      /\ call.result[k].name_similarity =
           score_pair(FirstOf(call.new_trademark, "name", "Client / Applicant"),
                      Get(LedgerKeysOf(call.result[k].existing_trademark),
                          "Client / Applicant"))
      /\ call.result[k].logo_similarity =
           score_pair(FirstOf(call.new_trademark, "text_in_logo", "Trademark"),
                      ExistingLogoText(LedgerKeysOf(call.result[k].existing_trademark)))

\* a new record with both key sets against a stored record with both key
\* sets, every value of a pair different from the other
C13_Witness ==
  /\ Matching
  /\ {"name", "Client / Applicant", "text_in_logo", "Trademark"}
       \subseteq DOMAIN call.new_trademark
  /\ call.new_trademark["name"] \notin {<<>>, call.new_trademark["Client / Applicant"]}
  /\ call.new_trademark["text_in_logo"] \notin {<<>>, call.new_trademark["Trademark"]}
  /\ \E k \in DOMAIN call.result :
       /\ "name" \in DOMAIN call.result[k].existing_trademark
       /\ "text_in_logo" \in DOMAIN call.result[k].existing_trademark
       /\ call.result[k].name_similarity.overall_similarity > 0

\* the candidates find_similar_trademarks returns for the call's arguments
Found ==
  find_similar_trademarks(existing_trademarks, call.new_trademark,
                          call.similarity_threshold)

\* one hundredth of a score unit
Hundredth == Scale \div 100

\* rounded is a whole number of hundredths at most half a hundredth from score
RoundedTo2(rounded, score) ==
  /\ rounded % Hundredth = 0
  /\ 2 * (rounded - score) <= Hundredth
  /\ 2 * (score - rounded) <= Hundredth

\* the reported matches against the candidates they are built from
MirrorsMatches(matches, found) ==
  /\ Len(matches) = Len(found)
  /\ \A k \in DOMAIN matches :
       /\ matches[k].existing_trademark = found[k].existing_trademark
       /\ found[k].existing_trademark = existing_trademarks[found[k].corpus_index]
       /\ RoundedTo2(matches[k].similarity_score, found[k].max_similarity_score)
       /\ matches[k].similarity_level =
            classify_similarity_level(found[k].max_similarity_score)
       /\ matches[k].similarity_type = found[k].similarity_type

\* C14: the report's corpus size is the number of stored records, its match
\* count the length of its matches, its threshold the one supplied, and its
\* matches are the candidates of find_similar_trademarks in the same order,
\* each with the stored record unchanged, max_similarity_score rounded to 2
\* decimals, the classifier label of the candidate's score and its
\* similarity_type.
C14_ReportMirrorsMatches ==
  Reporting =>
    /\ call.result.total_existing_trademarks = Len(existing_trademarks)
    /\ call.result.similar_trademarks_found = Len(call.result.matches)
    /\ call.result.similarity_threshold = call.similarity_threshold
    /\ MirrorsMatches(call.result.matches, Found)

\* a report that keeps one of two stored records, with a score that rounding
\* changes
C14_Witness ==
  /\ Reporting
  /\ call.result.total_existing_trademarks = 2
  /\ call.result.similar_trademarks_found = 1
  /\ call.result.matches[1].similarity_score # Found[1].max_similarity_score

\* every value of a reported breakdown but avg_phonetic against the
\* PairSimilarity it is taken from: the flags copied, the rest rounded
BreakdownOf(reported, similarity) ==
  /\ reported.phonetic.soundex = similarity.soundex
  /\ reported.phonetic.metaphone = similarity.metaphone
  /\ RoundedTo2(reported.fuzzy.levenshtein, similarity.levenshtein)
  /\ RoundedTo2(reported.fuzzy.fuzzy_ratio, similarity.fuzzy_ratio)
  /\ RoundedTo2(reported.fuzzy.partial_ratio, similarity.partial_ratio)
  /\ RoundedTo2(reported.fuzzy.token_sort, similarity.token_sort)
  /\ RoundedTo2(reported.fuzzy.avg_fuzzy, similarity.avg_fuzzy)
  /\ RoundedTo2(reported.overall, similarity.overall_similarity)

\* the two breakdowns of every reported match against the candidates': the
\* reported avg_phonetic is factor times the pair's and lies in values
BreakdownsOf(matches, found, factor, values) ==
  \A k \in DOMAIN matches :
    /\ BreakdownOf(matches[k].detailed_scores.name_comparison,
                   found[k].name_similarity)
    /\ BreakdownOf(matches[k].detailed_scores.logo_comparison,
                   found[k].logo_similarity)
    /\ matches[k].detailed_scores.name_comparison.phonetic.avg_phonetic
         = factor * found[k].name_similarity.avg_phonetic
    /\ matches[k].detailed_scores.logo_comparison.phonetic.avg_phonetic
         = factor * found[k].logo_similarity.avg_phonetic
    /\ matches[k].detailed_scores.name_comparison.phonetic.avg_phonetic \in values
    /\ matches[k].detailed_scores.logo_comparison.phonetic.avg_phonetic \in values

\* C15 as stated: each value of the two breakdowns is the candidate's
\* sub-score rounded to 2 decimals, the flags copied; the reported
\* avg_phonetic is the pair's avg_phonetic, a value in {0, 0.5, 1}.
C15_BreakdownCopiesAvgPhonetic ==
  Reporting =>
    BreakdownsOf(call.result.matches, Found, 1, {0, Num(1) \div 2, Num(1)})

\* C15 amended: each value of the two breakdowns is the candidate's sub-score
\* rounded to 2 decimals, the flags copied, except avg_phonetic, which is
\* reported as a percentage: 100 times the pair's avg_phonetic, a value in
\* {0, 50, 100}.
C15_BreakdownAvgPhoneticAsPercent ==
  Reporting =>
    BreakdownsOf(call.result.matches, Found, 100, {0, Num(50), Num(100)})

\* a match is reported whose name comparison has both flags set and whose
\* logo comparison has none
C15_Witness ==
  /\ Reporting
  /\ \E k \in DOMAIN call.result.matches :
       /\ Found[k].name_similarity.avg_phonetic = Num(1)
       /\ call.result.matches[k].detailed_scores.name_comparison.phonetic.avg_phonetic
            = Num(100)
       /\ Found[k].logo_similarity.avg_phonetic = 0
       /\ Found[k].logo_similarity.avg_fuzzy > 0

\* the all-zero PairSimilarity
AllZero(similarity) ==
  /\ DOMAIN similarity =
       {"soundex", "metaphone", "avg_phonetic", "levenshtein", "fuzzy_ratio",
        "partial_ratio", "token_sort", "avg_fuzzy", "overall_similarity"}
  /\ \A f \in DOMAIN similarity : similarity[f] = 0

\* the report's summary of a new record: each field from the first of its
\* two keys that has a value, the empty string when neither has
SummaryOf(record) ==
  [name |-> FirstOf(record, "name", "Client / Applicant"),
   trademark |-> FirstOf(record, "text_in_logo", "Trademark"),
   application_no |-> FirstOf(record, "registration_number", "Application No."),
   class |-> FirstOf(record, "business_category", "Class"),
   status |-> FirstOf(record, "legal_status", "Status")]

\* C16: for records whose recognised fields are absent, empty or strings,
\* find_similar_trademarks and generate_comparison_report return a result;
\* a field missing under all its keys counts as the empty string (for the
\* stored trademark text the keys are "Trademark" and, by the fallback,
\* "Client / Applicant"), and a comparison with such a field is all zero.
C16_PartialRecordsScoreZero ==
  /\ Matching =>
       /\ Len(call.result) <= Len(existing_trademarks)
       /\ call.similarity_threshold <= 0 => Len(call.result) = Len(existing_trademarks)
       /\ \A k \in DOMAIN call.result :
            /\ (\/ FirstOf(call.new_trademark, "name", "Client / Applicant") = <<>>
                \/ FirstOf(call.result[k].existing_trademark,
                           "Client / Applicant", "Client / Applicant") = <<>>)
                 => AllZero(call.result[k].name_similarity)
            /\ (\/ FirstOf(call.new_trademark, "text_in_logo", "Trademark") = <<>>
                \/ /\ FirstOf(call.result[k].existing_trademark,
                              "Trademark", "Trademark") = <<>>
                   /\ FirstOf(call.result[k].existing_trademark,
                              "Client / Applicant", "Client / Applicant") = <<>>)
                 => AllZero(call.result[k].logo_similarity)
  /\ Reporting =>
       /\ call.result.new_trademark = SummaryOf(call.new_trademark)
       /\ call.result.total_existing_trademarks = Len(existing_trademarks)
       /\ call.similarity_threshold <= 0 =>
            call.result.similar_trademarks_found = Len(existing_trademarks)
       /\ \A k \in DOMAIN call.result.matches :
            FirstOf(call.new_trademark, "name", "Client / Applicant") = <<>>
              => call.result.matches[k].detailed_scores.name_comparison.overall = 0

\* a new record without any field is matched against a corpus that holds a
\* stored record without any field, and both stored records are returned
C16_Witness ==
  /\ Matching
  /\ DOMAIN call.new_trademark = {}
  /\ Len(call.result) = 2
  /\ DOMAIN call.result[1].existing_trademark = {}
  /\ DOMAIN call.result[2].existing_trademark = {"Client / Applicant", "Trademark"}
  /\ AllZero(call.result[2].logo_similarity)

\* C17: with an empty corpus find_similar_trademarks returns the empty list
\* and the report has corpus size 0, match count 0 and no matches, for every
\* new record and every threshold, 0 and below included.
C17_EmptyCorpusNoMatches ==
  existing_trademarks = <<>> =>
    /\ Matching => call.result = <<>>
    /\ Reporting =>
         /\ call.result.total_existing_trademarks = 0
         /\ call.result.similar_trademarks_found = 0
         /\ call.result.matches = <<>>
         /\ call.result.similarity_threshold = call.similarity_threshold
         /\ call.result.new_trademark = SummaryOf(call.new_trademark)

\* a report on the empty corpus for a threshold below 0 and a new record
\* that has a name
C17_Witness ==
  /\ Reporting
  /\ existing_trademarks = <<>>
  /\ call.similarity_threshold < 0
  /\ call.result.new_trademark.name = Acme
  /\ call.result.similar_trademarks_found = 0

\* the reports of a request that was answered with a comparison
ReportsOf(r) ==
  IF requests[r].handler = "compare_trademark_with_database"
  THEN <<requests[r].response.comparison_report>>
  ELSE requests[r].response.comparison_results

Answered(r) ==
  /\ requests[r].handler \in {"compare_trademark_with_database",
                              "extract_and_compare_trademark_from_pdf"}
  /\ requests[r].pc = "done"
  /\ requests[r].response.status_code = 200

\* C18: under every interleaving of requests, each report of a comparison
\* request is computed over the corpus that this request itself loaded: it
\* counts that corpus and its matches are the matches in that corpus.
C18_ReportOverOwnSnapshot ==
  \A r \in Requests :
    Answered(r) =>
      \A i \in DOMAIN ReportsOf(r) :
        /\ ReportsOf(r)[i].total_existing_trademarks = Len(requests[r].loaded)
        /\ \A k \in DOMAIN ReportsOf(r)[i].matches :
             \E j \in DOMAIN requests[r].loaded :
               ReportsOf(r)[i].matches[k].existing_trademark = requests[r].loaded[j]

\* C19: find_similar_trademarks and generate_comparison_report leave their
\* inputs as they were: the corpus has the same records in the same order
\* after the call, every returned record is a record of that corpus, and the
\* new record is the one the call was made with.
C19_InputsNotMutated ==
  [][(call = Idle /\ call'.op \in {"find_similar_trademarks",
                                   "generate_comparison_report"}) =>
       /\ existing_trademarks' = existing_trademarks
       /\ call'.new_trademark \in NewRecords
       /\ call'.op = "find_similar_trademarks" =>
            \A k \in DOMAIN call'.result :
              call'.result[k].existing_trademark =
                existing_trademarks[call'.result[k].corpus_index]
       /\ call'.op = "generate_comparison_report" =>
            /\ call'.result.new_trademark = SummaryOf(call'.new_trademark)
            /\ \A k \in DOMAIN call'.result.matches :
                 \E i \in DOMAIN existing_trademarks :
                   call'.result.matches[k].existing_trademark = existing_trademarks[i]
    ]_vars

\* the result ranks the second stored record first while the corpus is still
\* as it was loaded
C19_Witness ==
  /\ Matching
  /\ Len(call.result) = 2
  /\ call.result[1].corpus_index = 2
  /\ call.result[1].existing_trademark # call.result[2].existing_trademark
  /\ existing_trademarks = csv_file.rows

\* C20: in every report match the similarity_level is the classifier's label
\* of the reported similarity_score, the value rounded to 2 decimals.
C20_LabelOfReportedScore ==
  Reporting =>
    \A k \in DOMAIN call.result.matches :
      call.result.matches[k].similarity_level =
        classify_similarity_level(call.result.matches[k].similarity_score)

\* a raw name that is not empty and normalizes to the empty string
NormalizesToEmpty(name) == name # <<>> /\ normalize_name(name) = <<>>

\* C21: score_pair with a name that normalizes to the empty string on either
\* side returns zero for every phonetic and fuzzy sub-score, both means and
\* overall_similarity, so two such names score below the default threshold.
C21_PunctuationOnlyScoresZero ==
  (Scoring /\ (NormalizesToEmpty(call.name1) \/ NormalizesToEmpty(call.name2))) =>
    /\ \A f \in {"soundex", "metaphone", "avg_phonetic", "levenshtein",
                 "fuzzy_ratio", "partial_ratio", "token_sort", "avg_fuzzy",
                 "overall_similarity"} :
         call.result[f] = 0
    /\ call.result.overall_similarity < Num(DefaultThreshold)

\* the report is made from the one corpus: it counts the corpus, counts its
\* own matches, and every match is a record of that corpus
FromOneSnapshot(report, corpus) ==
  /\ report.total_existing_trademarks = Len(corpus)
  /\ report.similar_trademarks_found = Len(report.matches)
  /\ report.similar_trademarks_found <= report.total_existing_trademarks
  /\ \A k \in DOMAIN report.matches :
       \E j \in DOMAIN corpus : report.matches[k].existing_trademark = corpus[j]

\* C22: under every interleaving of requests and reloads, each report of a
\* request answered in a step is made from one corpus snapshot, the corpus
\* the comparator holds in that step: total_existing_trademarks counts it,
\* the matches are found in it, and similar_trademarks_found is at most the
\* total.
C22_ReportFromOneSnapshot ==
  [][\A r \in Requests :
       (~Answered(r) /\ Answered(r)') =>
         \A i \in DOMAIN ReportsOf(r)' :
           FromOneSnapshot(ReportsOf(r)'[i], existing_trademarks')]_vars

\* a PDF request was answered with a report of two matches in a corpus of two
\* records that an upload put in place after the request had loaded another
C22_Witness ==
  \E r \in Requests :
    /\ Answered(r)
    /\ requests[r].handler = "extract_and_compare_trademark_from_pdf"
    /\ Len(requests[r].loaded) < 2
    /\ \E i \in DOMAIN ReportsOf(r) :
         /\ ReportsOf(r)[i].total_existing_trademarks = 2
         /\ ReportsOf(r)[i].similar_trademarks_found = 2

Loading == call.op = "load_existing_trademarks_from_csv"

\* the load in progress failed: the file is missing or reading it raised
LoadFailed == Loading /\ read_error(csv_file) # "none"

\* C23: a load of a missing or unreadable file raises no exception and
\* leaves the corpus empty, whatever corpus was loaded before; while the
\* corpus is empty every match list is empty and every report counts 0
\* records; and an empty corpus gets records only by a load that succeeds.
C23_FailedLoadEmptiesCorpus ==
  /\ [](/\ LoadFailed => (call.raised = "none" /\ existing_trademarks = <<>>)
        /\ (Loading /\ ~LoadFailed) =>
             (call.raised = "none" /\ existing_trademarks = csv_file.rows)
        /\ (existing_trademarks = <<>> /\ Matching) => call.result = <<>>
        /\ (existing_trademarks = <<>> /\ Reporting) =>
             /\ call.result.total_existing_trademarks = 0
             /\ call.result.similar_trademarks_found = 0
             /\ call.result.matches = <<>>)
  /\ [][(existing_trademarks = <<>> /\ existing_trademarks' # <<>>) =>
         (Loading' /\ ~LoadFailed' /\ existing_trademarks' = csv_file'.rows)]_vars

\* a load of a file that holds rows and cannot be decoded has emptied a corpus
\* that held records
C23_Witness ==
  /\ LoadFailed
  /\ read_error(csv_file) = "UnicodeDecodeError"
  /\ csv_file.rows # <<>>
  /\ call.before # <<>>
  /\ existing_trademarks = <<>>

\* the request was rejected by the validation of its handler: a
\* /compare/trademark request without trademark data, or a comparison upload
\* that is not a PDF
Rejected(r) ==
  /\ requests[r].handler \in {"compare_trademark_with_database",
                              "extract_and_compare_trademark_from_pdf"}
  /\ requests[r].pc = "done"
  /\ IF requests[r].handler = "compare_trademark_with_database"
     THEN DOMAIN requests[r].trademark_data = {}
     ELSE "is_pdf" \in DOMAIN requests[r]

\* C24: a request rejected by the validation of its handler is answered with
\* the status the validation raised, 400, and neither a load nor a comparison
\* was made for it.
C24_RejectedWithValidationStatus ==
  \A r \in Requests :
    Rejected(r) =>
      /\ requests[r].response.status_code = 400
      /\ "loaded" \notin DOMAIN requests[r]
      /\ DOMAIN requests[r].response = {"status_code"}
====
